---- MODULE Spec2Model ----
(***************************************************************************)
(* WTF-8 string core of Duktape: duk_unicode_wtf8.c (validator, sanitizer, *)
(* symbol detection, ASCII keep check, character length) and               *)
(* duk_hstring_misc.c (lazy character length and ASCII flag of a string    *)
(* handle).                                                                *)
(*                                                                         *)
(* Bytes are integers 0..255.  A byte buffer is a sequence; a C pointer p  *)
(* into a buffer str is the offset p - str, so *p is str[p + 1].           *)
(***************************************************************************)
EXTENDS Integers, Sequences, FiniteSets, TLC

(***************************************************************************)
(* Bounds of the model.                                                    *)
(***************************************************************************)
MaxLen == 3
MaxUnits == 3

(* Representative bytes: ASCII, the continuation bytes at the edges of the *)
(* ranges the code tests (0x80, 0x8f/0x90, 0xa0, 0xb0), the invalid leads  *)
(* 0xc1 and 0xff, and the leads 0xc3, 0xe0, 0xed, 0xf0, 0xf4.              *)
Bytes == {\h41, \h80, \h8F, \h90, \hA0, \hB0, \hC1, \hC3, \hE0, \hED, \hF0, \hF4, \hFF}

(* Whole sequences and fragments used to build longer inputs.              *)
Units ==
  { <<\h41>>, <<\hC3, \hA9>>, <<\hED, \h9F, \hBF>>, <<\hED, \hA0, \hBD>>,
    <<\hED, \hB8, \h80>>, <<\hEF, \hBF, \hBD>>, <<\hF0, \h9F, \h98, \h80>>,
    <<\hF4, \h8F, \hBF, \hBF>>, <<\hED, \hA0>>, <<\h80>>, <<\hF5>> }

RECURSIVE Flatten(_)
Flatten(ss) == IF ss = <<>> THEN <<>> ELSE Head(ss) \o Flatten(Tail(ss))

(* The concrete inputs the documentation of the sanitizer names.           *)
Scenarios ==
  { <<\h41, \hC3, \hA9, \h20, \hF0, \h9F, \h98, \h80>>,
    <<\hED, \hA0, \hBD, \hED, \hB8, \h80>>,
    <<\hC0, \hAF>>,
    <<\h41, \hC3, \h28>>,
    <<\hF4, \h90, \h80, \h80>>,
    <<\hE0, \h80, \h80>>, <<\hF0, \h80, \h80, \h80>> }

RawInputs == UNION {[1..n -> Bytes] : n \in 0..MaxLen}
UnitInputs == {Flatten(us) : us \in UNION {[1..n -> Units] : n \in 0..MaxUnits}}
Inputs == RawInputs \cup UnitInputs \cup Scenarios

(***************************************************************************)
(* duk_unicode_is_valid_wtf8                                               *)
(***************************************************************************)
RECURSIVE duk_unicode_is_valid_wtf8_from(_, _)
duk_unicode_is_valid_wtf8_from(data, p) ==
  LET p_end == Len(data)
      t == data[p + 1]
      cont(i) == data[p + 1 + i] >= \h80 /\ data[p + 1 + i] <= \hBF
  IN
  IF p = p_end THEN TRUE
  ELSE IF t <= \h7F THEN duk_unicode_is_valid_wtf8_from(data, p + 1)
  ELSE IF t <= \hC1 THEN FALSE
  ELSE IF t <= \hDF THEN
    IF p_end - p >= 2 /\ cont(1)
    THEN duk_unicode_is_valid_wtf8_from(data, p + 2) ELSE FALSE
  ELSE IF t <= \hEF THEN
    LET lower == IF t = \hE0 THEN \hA0 ELSE \h80 IN
    IF p_end - p >= 3 /\ data[p + 2] >= lower /\ data[p + 2] <= \hBF /\ cont(2)
    THEN duk_unicode_is_valid_wtf8_from(data, p + 3) ELSE FALSE
  ELSE IF t <= \hF4 THEN
    LET lower == IF t = \hF0 THEN \h90 ELSE \h80
        upper == IF t = \hF4 THEN \h8F ELSE \hBF IN
    IF p_end - p >= 4 /\ data[p + 2] >= lower /\ data[p + 2] <= upper /\ cont(2) /\ cont(3)
    THEN duk_unicode_is_valid_wtf8_from(data, p + 4) ELSE FALSE
  ELSE FALSE

duk_unicode_is_valid_wtf8(data) == duk_unicode_is_valid_wtf8_from(data, 0)

(***************************************************************************)
(* duk__unicode_wtf8_sanitize_string_reference, one piece per block of the *)
(* loop body.                                                              *)
(***************************************************************************)

(* LeadInit without the upper limit 0x8f after a 0xf4 lead.                *)
LeadInitNoUpper(t) ==
  IF t >= \hC2 THEN
    IF t <= \hDF THEN
      [ok |-> TRUE, cp |-> t % 32, num_cont |-> 1, lower |-> \h80, upper |-> \hBF]
    ELSE IF t <= \hEF THEN
      [ok |-> TRUE, cp |-> t % 16, num_cont |-> 2,
       lower |-> IF t = \hE0 THEN \hA0 ELSE \h80, upper |-> \hBF]
    ELSE IF t <= \hF4 THEN
      [ok |-> TRUE, cp |-> t % 8, num_cont |-> 3,
       lower |-> IF t = \hF0 THEN \h90 ELSE \h80, upper |-> \hBF]
    ELSE [ok |-> FALSE, cp |-> 0, num_cont |-> 0, lower |-> 0, upper |-> 0]
  ELSE [ok |-> FALSE, cp |-> 0, num_cont |-> 0, lower |-> 0, upper |-> 0]

(* Lead byte classification: cp, num_cont, lower, upper, or replacement.   *)
LeadInit(t) ==
  IF t >= \hC2 THEN
    IF t <= \hDF THEN
      [ok |-> TRUE, cp |-> t % 32, num_cont |-> 1, lower |-> \h80, upper |-> \hBF]
    ELSE IF t <= \hEF THEN
      [ok |-> TRUE, cp |-> t % 16, num_cont |-> 2,
       lower |-> IF t = \hE0 THEN \hA0 ELSE \h80, upper |-> \hBF]
    ELSE IF t <= \hF4 THEN
      [ok |-> TRUE, cp |-> t % 8, num_cont |-> 3,
       lower |-> IF t = \hF0 THEN \h90 ELSE \h80,
       upper |-> IF t = \hF4 THEN \h8F ELSE \hBF]
    ELSE [ok |-> FALSE, cp |-> 0, num_cont |-> 0, lower |-> 0, upper |-> 0]
  ELSE [ok |-> FALSE, cp |-> 0, num_cont |-> 0, lower |-> 0, upper |-> 0]

(* ContLoop without the p-- on an invalid continuation byte.               *)
RECURSIVE ContLoopNoStepBack(_, _, _, _, _, _)
ContLoopNoStepBack(str, p, cp, num_cont, lower, upper) ==
  IF p = Len(str) THEN [ok |-> FALSE, p |-> p, cp |-> cp]
  ELSE LET t == str[p + 1] IN
    IF t >= lower /\ t <= upper THEN
      LET cp2 == cp * 64 + (t % 64) IN
      IF num_cont - 1 # 0
      THEN ContLoopNoStepBack(str, p + 1, cp2, num_cont - 1, \h80, \hBF)
      ELSE [ok |-> TRUE, p |-> p + 1, cp |-> cp2]
    ELSE [ok |-> FALSE, p |-> p + 1, cp |-> cp]

(* The do/while loop over the continuation bytes.  On an invalid byte the  *)
(* code steps p back, so p is left at the offending byte.                  *)
RECURSIVE ContLoop(_, _, _, _, _, _)
ContLoop(str, p, cp, num_cont, lower, upper) ==
  IF p = Len(str) THEN [ok |-> FALSE, p |-> p, cp |-> cp]
  ELSE LET t == str[p + 1] IN
    IF t >= lower /\ t <= upper THEN
      LET cp2 == cp * 64 + (t % 64) IN
      IF num_cont - 1 # 0
      THEN ContLoop(str, p + 1, cp2, num_cont - 1, \h80, \hBF)
      ELSE [ok |-> TRUE, p |-> p + 1, cp |-> cp2]
    ELSE [ok |-> FALSE, p |-> (p + 1) - 1, cp |-> cp]

is_paired(str, p) ==
  /\ Len(str) - p >= 3
  /\ str[p + 1] = \hED
  /\ str[p + 2] >= \hB0 /\ str[p + 2] <= \hBF
  /\ str[p + 3] >= \h80 /\ str[p + 3] <= \hBF

(* SurrogateCombine taking six bits, not four, of the low surrogate's      *)
(* second byte.                                                            *)
SurrogateCombineBadMask(str, p, cp) ==
  IF cp >= \hD800 /\ cp <= \hDFFF /\ cp < \hDC00 /\ is_paired(str, p) THEN
    LET hi == cp % 1024
        lo == ((str[p + 2] % 64) * 64) + (str[p + 3] % 64)
    IN [cp |-> \h10000 + (hi * 1024) + lo, p |-> p + 3]
  ELSE [cp |-> cp, p |-> p]

(* Surrogate handling after a complete sequence: a high surrogate directly *)
(* followed by an encoded low surrogate is combined and the low surrogate  *)
(* consumed.                                                               *)
SurrogateCombine(str, p, cp) ==
  IF cp >= \hD800 /\ cp <= \hDFFF /\ cp < \hDC00 /\ is_paired(str, p) THEN
    LET hi == cp % 1024
        lo == ((str[p + 2] % 16) * 64) + (str[p + 3] % 64)
    IN [cp |-> \h10000 + (hi * 1024) + lo, p |-> p + 3]
  ELSE [cp |-> cp, p |-> p]

(* Emit 'cp': bytes written (each truncated to a byte) and the addition to *)
(* out_clen_sub.                                                           *)
EmitCp(cp) ==
  IF cp <= \h7FF THEN
    [bytes |-> <<(\hC0 + (cp \div 64)) % 256, (\h80 + (cp % 64)) % 256>>, sub |-> 1]
  ELSE IF cp <= \hFFFF THEN
    [bytes |-> <<(\hE0 + (cp \div 4096)) % 256, (\h80 + ((cp \div 64) % 64)) % 256,
                 (\h80 + (cp % 64)) % 256>>, sub |-> 2]
  ELSE
    [bytes |-> <<(\hF0 + (cp \div 262144)) % 256, (\h80 + ((cp \div 4096) % 64)) % 256,
                 (\h80 + ((cp \div 64) % 64)) % 256, (\h80 + (cp % 64)) % 256>>, sub |-> 3]

(* Replacement variants: nothing written; counted as three extra bytes.    *)
ReplacementDropped == [bytes |-> <<>>, sub |-> 0]
ReplacementBadSub == [bytes |-> <<\hEF, \hBF, \hBD>>, sub |-> 3]

(* The 'replacement' label.                                                *)
Replacement == [bytes |-> <<\hEF, \hBF, \hBD>>, sub |-> 2]

(* One iteration of the while loop, started with p < p_end: the new p, the *)
(* bytes written at q and the addition to out_clen_sub.                    *)
SanitizeIter(str, p) ==
  LET t == str[p + 1] IN
  IF t < \h80 THEN [p |-> p + 1, bytes |-> <<t>>, sub |-> 0]
  ELSE
    LET lead == LeadInit(t) IN
    IF ~lead.ok THEN [p |-> p + 1] @@ Replacement
    ELSE
      LET c == ContLoop(str, p + 1, lead.cp, lead.num_cont, lead.lower, lead.upper) IN
      IF ~c.ok THEN [p |-> c.p] @@ Replacement
      ELSE
        LET s == SurrogateCombine(str, c.p, c.cp) IN
        [p |-> s.p] @@ EmitCp(s.cp)

(* The whole function: the bytes written to out_data and out_clen_sub.     *)
RECURSIVE SanitizeFrom(_, _, _, _)
SanitizeFrom(str, p, q, sub) ==
  IF p = Len(str) THEN [out |-> q, out_clen_sub |-> sub]
  ELSE LET it == SanitizeIter(str, p)
       IN SanitizeFrom(str, it.p, q \o it.bytes, sub + it.sub)

duk__unicode_wtf8_sanitize_string_reference(str) == SanitizeFrom(str, 0, <<>>, 0)

duk_unicode_wtf8_sanitize_string(str) ==
  duk__unicode_wtf8_sanitize_string_reference(str).out

(***************************************************************************)
(* duk_unicode_wtf8_charlength                                             *)
(***************************************************************************)
RECURSIVE CharlengthAdj(_, _, _)
CharlengthAdj(data, p, adj) ==
  IF p >= Len(data) THEN adj
  ELSE LET x == data[p + 1] IN
    IF x <= \h7F THEN CharlengthAdj(data, p + 1, adj)
    ELSE IF x <= \hDF THEN CharlengthAdj(data, p + 2, adj + (2 - 1))
    ELSE IF x <= \hEF THEN CharlengthAdj(data, p + 3, adj + (3 - 1))
    ELSE CharlengthAdj(data, p + 4, adj + (4 - 2))

duk_unicode_wtf8_charlength(data) == Len(data) - CharlengthAdj(data, 0, 0)

(***************************************************************************)
(* duk_unicode_wtf8_sanitize_symbol and duk_unicode_wtf8_sanitize_detect   *)
(***************************************************************************)

(* memcpy of str_blen bytes.                                               *)
duk__unicode_wtf8_sanitize_symbol_reference(str) == [i \in 1..Len(str) |-> str[i]]

(* The symbol test without the 0xff marker.                                *)
DetectSymbolNoFF(str) ==
  IF Len(str) > 0 THEN
    LET ib == str[1] IN
    IF ib <= \h7F THEN FALSE
    ELSE ib = \h80 \/ ib = \h81 \/ ib = \h82
  ELSE FALSE

(* The 'symbol' local of duk_unicode_wtf8_sanitize_detect.                 *)
DetectSymbol(str) ==
  IF Len(str) > 0 THEN
    LET ib == str[1] IN
    IF ib <= \h7F THEN FALSE
    ELSE ib = \h80 \/ ib = \h81 \/ ib = \h82 \/ ib = \hFF
  ELSE FALSE

(***************************************************************************)
(* duk__unicode_wtf8_sanitize_asciicheck_optimized and                     *)
(* duk_unicode_wtf8_sanitize_keepcheck.  'align' is the address of str[0]  *)
(* modulo 4.  A read at an offset >= blen is a read outside the buffer and *)
(* yields 'junk'.  Each operator threads 'hi', one more than the highest   *)
(* offset read so far.                                                     *)
(***************************************************************************)
Max(a, b) == IF a >= b THEN a ELSE b

Mem(str, junk, i) == IF i < Len(str) THEN str[i + 1] ELSE junk

(* The byte-by-byte scan.                                                  *)
RECURSIVE AsciicheckReferenceFrom(_, _)
AsciicheckReferenceFrom(str, i) ==
  IF i < Len(str) THEN
    IF str[i + 1] >= \h80 THEN i ELSE AsciicheckReferenceFrom(str, i + 1)
  ELSE Len(str)

duk__unicode_wtf8_sanitize_asciicheck_reference(str) == AsciicheckReferenceFrom(str, 0)

(* The shared loop after skip_fastpath.                                    *)
RECURSIVE TailScan(_, _, _, _)
TailScan(str, junk, q, hi) ==
  IF q = Len(str) THEN [ret |-> Len(str), hi |-> hi]
  ELSE IF Mem(str, junk, q) >= \h80 THEN [ret |-> q, hi |-> Max(hi, q + 1)]
  ELSE TailScan(str, junk, q + 1, Max(hi, q + 1))

(* Step to 4-byte alignment; skip is the goto skip_fastpath.               *)
RECURSIVE AlignWalk(_, _, _, _, _)
AlignWalk(str, junk, align, q, hi) ==
  IF (align + q) % 4 # 0 THEN
    IF Mem(str, junk, q) >= \h80
    THEN [p |-> q, hi |-> Max(hi, q + 1), skip |-> TRUE]
    ELSE AlignWalk(str, junk, align, q + 1, Max(hi, q + 1))
  ELSE [p |-> q, hi |-> hi, skip |-> FALSE]

(* The test with the mask 0x80808000: one byte of the word is not looked   *)
(* at.                                                                     *)
WordNonAsciiBadMask(x) == \E i \in 1..3 : (x[i] \div 128) % 2 = 1

(* (x & 0x80808080UL) != 0 for the word x, given as its four bytes: bit 7  *)
(* of any byte is set.  The byte order of the word does not matter.        *)
WordNonAscii(x) == \E i \in 1..4 : (x[i] \div 128) % 2 = 1

(* The do/while loop over aligned words.                                   *)
RECURSIVE WordLoop(_, _, _, _, _)
WordLoop(str, junk, p32, p32_end, hi) ==
  LET x == <<Mem(str, junk, p32), Mem(str, junk, p32 + 1),
             Mem(str, junk, p32 + 2), Mem(str, junk, p32 + 3)>>
      hi2 == Max(hi, p32 + 4)
  IN
  IF WordNonAscii(x) THEN [p |-> p32, hi |-> hi2]
  ELSE IF p32 + 4 # p32_end THEN WordLoop(str, junk, p32 + 4, p32_end, hi2)
  ELSE [p |-> p32 + 4, hi |-> hi2]

duk__unicode_wtf8_sanitize_asciicheck_optimized(str, align, junk) ==
  IF Len(str) < 8 THEN TailScan(str, junk, 0, 0)
  ELSE
    LET a == AlignWalk(str, junk, align, 0, 0) IN
    IF a.skip THEN TailScan(str, junk, a.p, a.hi)
    ELSE
      LET rest == Len(str) - a.p
          p32_end == a.p + (rest - (rest % 4))
          w == WordLoop(str, junk, a.p, p32_end, a.hi)
      IN TailScan(str, junk, w.p, w.hi)

(* Returns the value returned, the local blen_keep and hi.                 *)
duk_unicode_wtf8_sanitize_keepcheck(str, align, junk) ==
  LET a == duk__unicode_wtf8_sanitize_asciicheck_optimized(str, align, junk)
      blen_keep == a.ret
  IN
  IF blen_keep = 0 /\ Len(str) > 0 THEN
    LET ib == Mem(str, junk, 0) IN
    [ret |-> IF ib = \h80 \/ ib = \h81 \/ ib = \h82 \/ ib = \hFF THEN Len(str) ELSE blen_keep,
     blen_keep |-> blen_keep, hi |-> Max(a.hi, 1)]
  ELSE [ret |-> blen_keep, blen_keep |-> blen_keep, hi |-> a.hi]

(***************************************************************************)
(* duk_hstring: the string handle.  data are its bytes (its byte length is *)
(* Len(data)), symbol and readonly its SYMBOL and READONLY flags, ascii    *)
(* its lazily set ASCII flag and clen the stored character length (clen16  *)
(* with DUK_USE_STRLEN16, which changes the name and the width of the      *)
(* field only: a character length never exceeds the byte length, which the *)
(* interner keeps below 2^16 then; 0 when the field does not exist).       *)
(*                                                                         *)
(* A build configuration is the set of the feature options that are        *)
(* defined: lazy_clen is DUK_USE_HSTRING_LAZY_CLEN, clen is                *)
(* DUK_USE_HSTRING_CLEN and rom is DUK_USE_ROM_STRINGS.                    *)
(***************************************************************************)
duk_hstring_get_bytelen(hs) == Len(hs.data)

duk_hstring_is_ascii(hs) == hs.ascii

(* The result of a call on a handle: the value returned, the handle after  *)
(* the call and the set of fields the call has stored to.                  *)
Result(r, hs, w) == [ret |-> r, h |-> hs, wrote |-> w]

(* duk_hstring_init_charlen, called on a new handle when the length is not *)
(* lazy.                                                                   *)
duk_hstring_init_charlen(hs, c) ==
  LET clen == IF hs.symbol THEN 0 ELSE duk_unicode_wtf8_charlength(hs.data)
      h1 == [hs EXCEPT !.clen = clen]
  IN IF clen = duk_hstring_get_bytelen(hs) THEN [h1 EXCEPT !.ascii = TRUE] ELSE h1

(* The slow path with a stored clen, without the READONLY test.            *)
SlowpathClenNoReadonlyTest(hs, c) ==
  IF hs.symbol THEN Result(0, hs, {})
  ELSE
    LET res == duk_unicode_wtf8_charlength(hs.data)
        h1 == [hs EXCEPT !.clen = res]
    IN IF res = duk_hstring_get_bytelen(hs)
       THEN Result(res, [h1 EXCEPT !.ascii = TRUE], {"clen", "flags"})
       ELSE Result(res, h1, {"clen"})

(* The slow path with a stored clen, the ASCII flag toggled where the code  *)
(* sets it.                                                                *)
SlowpathClenToggleAscii(hs, c) ==
  IF c.rom /\ hs.readonly THEN Result(0, hs, {})
  ELSE IF hs.symbol THEN Result(0, hs, {})
  ELSE
    LET res == duk_unicode_wtf8_charlength(hs.data)
        h1 == [hs EXCEPT !.clen = res]
    IN IF res = duk_hstring_get_bytelen(hs)
       THEN Result(res, [h1 EXCEPT !.ascii = ~hs.ascii], {"clen", "flags"})
       ELSE Result(res, h1, {"clen"})

(* duk__hstring_get_charlen_slowpath when the handle stores clen.          *)
SlowpathClen(hs, c) ==
  IF c.rom /\ hs.readonly THEN Result(0, hs, {})
  ELSE IF hs.symbol THEN Result(0, hs, {})
  ELSE
    LET res == duk_unicode_wtf8_charlength(hs.data)
        h1 == [hs EXCEPT !.clen = res]
    IN IF res = duk_hstring_get_bytelen(hs)
       THEN Result(res, [h1 EXCEPT !.ascii = TRUE], {"clen", "flags"})
       ELSE Result(res, h1, {"clen"})

(* duk__hstring_get_charlen_slowpath when the handle stores no clen.       *)
SlowpathNoClen(hs, c) ==
  IF hs.ascii THEN Result(duk_hstring_get_bytelen(hs), hs, {})
  ELSE IF hs.symbol THEN Result(0, hs, {})
  ELSE
    LET res == duk_unicode_wtf8_charlength(hs.data) IN
    IF c.rom /\ hs.readonly THEN Result(res, hs, {})
    ELSE IF res = duk_hstring_get_bytelen(hs)
    THEN Result(res, [hs EXCEPT !.ascii = TRUE], {"flags"})
    ELSE Result(res, hs, {})

(* duk_hstring_get_charlen returning the stored length on every path.      *)
GetCharlenNoSlowpath(hs, c) == Result(hs.clen, hs, {})

(* duk_hstring_get_charlen in the configuration c.                         *)
duk_hstring_get_charlen(hs, c) ==
  IF ~c.lazy_clen THEN Result(hs.clen, hs, {})
  ELSE IF c.clen THEN
    IF hs.clen # 0 THEN Result(hs.clen, hs, {}) ELSE SlowpathClen(hs, c)
  ELSE SlowpathNoClen(hs, c)

(***************************************************************************)
(* Collaborators that live outside these two files, modelled from their    *)
(* documented interface.                                                   *)
(***************************************************************************)

(* duk_strcache_scan_char2byte_wtf8: the byte offset of the sequence that  *)
(* holds character offset pos and the character offset of that byte, which *)
(* is pos, or pos - 1 when pos is the second half of a 4-byte sequence.    *)
RECURSIVE Char2ByteFrom(_, _, _, _)
Char2ByteFrom(data, pos, b, c) ==
  IF b >= Len(data) THEN [byteoff |-> b, charoff |-> c]
  ELSE
    LET n == IF data[b + 1] <= \h7F THEN 1 ELSE IF data[b + 1] <= \hDF THEN 2
             ELSE IF data[b + 1] <= \hEF THEN 3 ELSE 4
        w == IF n = 4 THEN 2 ELSE 1
    IN IF pos < c + w THEN [byteoff |-> b, charoff |-> c]
       ELSE Char2ByteFrom(data, pos, b + n, c + w)

duk_strcache_scan_char2byte_wtf8(data, pos) == Char2ByteFrom(data, pos, 0, 0)

(* The string table: duk_push_lstring interns the bytes, which sanitizes   *)
(* them (symbol detection, then the string sanitizer); the handle of a     *)
(* string is determined by its bytes.                                      *)
Intern(bytes) ==
  IF DetectSymbol(bytes) THEN duk__unicode_wtf8_sanitize_symbol_reference(bytes)
  ELSE duk_unicode_wtf8_sanitize_string(bytes)

(***************************************************************************)
(* duk_unicode_wtf8_decode_known at byte offset off of data.               *)
(***************************************************************************)
duk_unicode_wtf8_decode_known(data, off) ==
  LET t == data[off + 1] IN
  IF t <= \h7F THEN t
  ELSE IF t <= \hDF THEN ((t % 32) * 64) + (data[off + 2] % 64)
  ELSE IF t <= \hEF THEN
    ((t % 16) * 4096) + ((data[off + 2] % 64) * 64) + (data[off + 3] % 64)
  ELSE ((t % 8) * 262144) + ((data[off + 2] % 64) * 4096)
         + ((data[off + 3] % 64) * 64) + (data[off + 4] % 64)

(***************************************************************************)
(* The value stack of the API, as the entries above its height at the      *)
(* entry of the call in progress: "string" and "buffer" entries.           *)
(***************************************************************************)
duk_push(vs, e) == Append(vs, e)
duk_pop_unsafe(vs) == SubSeq(vs, 1, Len(vs) - 1)
duk_remove_m2(vs) == SubSeq(vs, 1, Len(vs) - 2) \o <<vs[Len(vs)]>>

(***************************************************************************)
(* duk_push_wtf8_substring_hstring: the bytes handed to duk_push_lstring   *)
(* (bytes), the handle pushed (str), the input handle after the call, the  *)
(* fields of it stored to, the value stack at return and the locals        *)
(* copy_start and copy_end (-1 on the paths that never assign them).       *)
(***************************************************************************)
SurrogateBytes(sur) ==
  << \hED, (\h80 + ((sur \div 64) % 64)) % 256, (\h80 + (sur % 64)) % 256 >>

SubstringResult(bytes, g, vs, copy_start, copy_end) ==
  [bytes |-> bytes, str |-> Intern(bytes), h |-> g.h, wrote |-> g.wrote,
   valstack |-> vs, copy_start |-> copy_start, copy_end |-> copy_end]

(* The surrogate manufactured when start_offset splits a codepoint.        *)
PrefixSurrogate(start_cp) == \hDC00 + ((start_cp - \h10000) % 1024)

SuffixSurrogateLow(end_cp) == \hDC00 + ((end_cp - \h10000) % 1024)

(* The surrogate manufactured when end_offset splits a codepoint.          *)
SuffixSurrogate(end_cp) == \hD800 + ((end_cp - \h10000) \div 1024)

CopyStartNoSkip(start_split, start_byteoff) == start_byteoff

CopyStart(start_split, start_byteoff) ==
  IF start_split THEN start_byteoff + 4 ELSE start_byteoff

PushWithTemporaryKept(vs) == duk_push(duk_push(vs, "buffer"), "string")

(* The slow path: the temporary buffer, the string pushed from it, and the *)
(* buffer removed from under the string.                                   *)
PushWithTemporary(vs) ==
  duk_remove_m2(duk_push(duk_push(vs, "buffer"), "string"))

duk_push_wtf8_substring_hstring(hs, c, vs, start_offset, end_offset) ==
  LET g == duk_hstring_get_charlen(hs, c)
      data == hs.data
  IN
  IF g.ret = duk_hstring_get_bytelen(hs) THEN
    SubstringResult(SubSeq(data, start_offset + 1, end_offset), g,
                    duk_push(vs, "string"), -1, -1)
  ELSE IF start_offset = end_offset THEN
    SubstringResult(<<>>, g, duk_push(vs, "string"), -1, -1)
  ELSE
    LET s == duk_strcache_scan_char2byte_wtf8(data, start_offset)
        start_split == s.charoff # start_offset
        start_cp == duk_unicode_wtf8_decode_known(data, s.byteoff)
        prefix_surrogate == IF start_split THEN PrefixSurrogate(start_cp) ELSE 0
        copy_start == CopyStart(start_split, s.byteoff)
        e == duk_strcache_scan_char2byte_wtf8(data, end_offset)
        end_split == e.charoff # end_offset
        end_cp == duk_unicode_wtf8_decode_known(data, e.byteoff)
        suffix_surrogate == IF end_split THEN SuffixSurrogate(end_cp) ELSE 0
        copy_end == e.byteoff
        copy == SubSeq(data, copy_start + 1, copy_end)
    IN
    IF prefix_surrogate = 0 /\ suffix_surrogate = 0 THEN
      SubstringResult(copy, g, duk_push(vs, "string"), copy_start, copy_end)
    ELSE SubstringResult(
           (IF prefix_surrogate # 0 THEN SurrogateBytes(prefix_surrogate) ELSE <<>>)
             \o copy
             \o (IF suffix_surrogate # 0 THEN SurrogateBytes(suffix_surrogate) ELSE <<>>),
           g, PushWithTemporary(vs), copy_start, copy_end)

(***************************************************************************)
(* duk__unicode_wtf8_search_forwards_reference and                         *)
(* duk__unicode_wtf8_search_backwards_reference.  The handles compare      *)
(* equal when their bytes do.  The result carries both handles after the   *)
(* call and the fields stored to.                                          *)
(***************************************************************************)
SearchResult(r, hs, w, ms, mw, vs) ==
  [ret |-> r, h |-> hs, wrote |-> w, m |-> ms, mwrote |-> mw, valstack |-> vs]

RECURSIVE SearchForwardsLoop(_, _, _, _, _, _, _, _, _)
SearchForwardsLoop(hs, w, c, ms, mw, vs, match_charlen, input_charlen, charoff) ==
  IF charoff <= input_charlen THEN
    IF charoff + match_charlen <= input_charlen THEN
      LET t == duk_push_wtf8_substring_hstring(hs, c, vs, charoff, charoff + match_charlen) IN
      IF t.str = ms.data THEN
        SearchResult(charoff, t.h, w \cup t.wrote, ms, mw, duk_pop_unsafe(t.valstack))
      ELSE SearchForwardsLoop(t.h, w \cup t.wrote, c, ms, mw, duk_pop_unsafe(t.valstack),
                              match_charlen, input_charlen, charoff + 1)
    ELSE SearchForwardsLoop(hs, w, c, ms, mw, vs, match_charlen, input_charlen, charoff + 1)
  ELSE SearchResult(-1, hs, w, ms, mw, vs)

SearchForwardsFromZero(hs, ms, c, vs, start_charoff) ==
  LET gi == duk_hstring_get_charlen(hs, c)
      gm == duk_hstring_get_charlen(ms, c)
  IN SearchForwardsLoop(gi.h, gi.wrote, c, gm.h, gm.wrote, vs, gm.ret, gi.ret, 0)

duk_unicode_wtf8_search_forwards(hs, ms, c, vs, start_charoff) ==
  LET gi == duk_hstring_get_charlen(hs, c)
      gm == duk_hstring_get_charlen(ms, c)
  IN SearchForwardsLoop(gi.h, gi.wrote, c, gm.h, gm.wrote, vs, gm.ret, gi.ret, start_charoff)

RECURSIVE SearchBackwardsLoop(_, _, _, _, _, _, _, _, _)
SearchBackwardsLoop(hs, w, c, ms, mw, vs, match_charlen, input_charlen, i) ==
  IF i >= 0 THEN
    LET charoff == i IN
    IF charoff + match_charlen <= input_charlen THEN
      LET t == duk_push_wtf8_substring_hstring(hs, c, vs, charoff, charoff + match_charlen) IN
      IF t.str = ms.data THEN
        SearchResult(charoff, t.h, w \cup t.wrote, ms, mw, duk_pop_unsafe(t.valstack))
      ELSE SearchBackwardsLoop(t.h, w \cup t.wrote, c, ms, mw, duk_pop_unsafe(t.valstack),
                               match_charlen, input_charlen, i - 1)
    ELSE SearchBackwardsLoop(hs, w, c, ms, mw, vs, match_charlen, input_charlen, i - 1)
  ELSE SearchResult(-1, hs, w, ms, mw, vs)

SearchBackwardsFromEnd(hs, ms, c, vs, start_charoff) ==
  LET gi == duk_hstring_get_charlen(hs, c)
      gm == duk_hstring_get_charlen(ms, c)
  IN SearchBackwardsLoop(gi.h, gi.wrote, c, gm.h, gm.wrote, vs, gm.ret, gi.ret, gi.ret)

duk_unicode_wtf8_search_backwards(hs, ms, c, vs, start_charoff) ==
  LET gi == duk_hstring_get_charlen(hs, c)
      gm == duk_hstring_get_charlen(ms, c)
  IN SearchBackwardsLoop(gi.h, gi.wrote, c, gm.h, gm.wrote, vs, gm.ret, gi.ret, start_charoff)

CharcodeatNoLowHalf(hs, c, pos, surrogate_aware) ==
  LET g == duk_hstring_get_charlen(hs, c) IN
  IF g.ret = duk_hstring_get_bytelen(hs) THEN Result(hs.data[pos + 1], g.h, g.wrote)
  ELSE
    LET s == duk_strcache_scan_char2byte_wtf8(hs.data, pos)
        cp == duk_unicode_wtf8_decode_known(hs.data, s.byteoff)
    IN
    IF cp < \h10000 \/ surrogate_aware THEN Result(cp, g.h, g.wrote)
    ELSE Result(\hD800 + ((cp - \h10000) \div 1024), g.h, g.wrote)

(***************************************************************************)
(* duk_unicode_wtf8_charcodeat_helper (duk_hstring_char_code_at_raw).      *)
(***************************************************************************)
duk_unicode_wtf8_charcodeat_helper(hs, c, pos, surrogate_aware) ==
  LET g == duk_hstring_get_charlen(hs, c) IN
  IF g.ret = duk_hstring_get_bytelen(hs) THEN Result(hs.data[pos + 1], g.h, g.wrote)
  ELSE
    LET s == duk_strcache_scan_char2byte_wtf8(hs.data, pos)
        cp == duk_unicode_wtf8_decode_known(hs.data, s.byteoff)
    IN
    IF cp < \h10000 THEN Result(cp, g.h, g.wrote)
    ELSE IF s.charoff = pos THEN
      IF surrogate_aware THEN Result(cp, g.h, g.wrote)
      ELSE Result(\hD800 + ((cp - \h10000) \div 1024), g.h, g.wrote)
    ELSE Result(\hDC00 + ((cp - \h10000) % 1024), g.h, g.wrote)

(***************************************************************************)
(* duk_unicode_wtf8_to_cesu8: one pass of the first loop (the byte at p    *)
(* adds to nonbmp_count) and one pass of the second loop (the new p and    *)
(* the bytes stored through q).  The second loop advances p past the byte  *)
(* it has read into t and nowhere else.                                    *)
(***************************************************************************)
Cesu8CountIter(data, p) == IF data[p + 1] >= \hF0 THEN 1 ELSE 0

Cesu8Half(sur) == << \hED, \h80 + ((sur \div 64) % 64), \h80 + (sur % 64) >>

Cesu8CopyIter(data, p) ==
  LET t == data[p + 1] IN
  IF t >= \hF0 THEN
    LET cp == ((t % 8) * 262144) + ((data[p + 2] % 64) * 4096)
                + ((data[p + 3] % 64) * 64) + (data[p + 4] % 64) - \h10000
        hi == \hD800 + (cp \div 1024)
        lo == \hDC00 + (cp % 1024)
    IN [p |-> p + 1, bytes |-> Cesu8Half(hi) \o Cesu8Half(lo)]
  ELSE [p |-> p + 1, bytes |-> <<t>>]

(***************************************************************************)
(* Inputs of the keep check: a first byte that is ASCII, a symbol marker   *)
(* or another non-ASCII byte, then ASCII and non-ASCII bytes.              *)
(***************************************************************************)
MaxKeepLen == 11

KeepInputs ==
  {<<>>} \cup
  UNION { {<<first>> \o rest : first \in {\h41, \h80, \h82, \hC3, \hFF},
                                rest \in [1..n -> {\h41, \hE9}]}
          : n \in 0..(MaxKeepLen - 1) }

(***************************************************************************)
(* Handles of the model: strings in canonical WTF-8 and symbols, in every  *)
(* configuration that compiles (a length that is not lazy has to be        *)
(* stored).  A new handle with a lazy length has clen 0 and no ASCII flag; *)
(* with an eager length duk_hstring_init_charlen has run.  READONLY        *)
(* handles are the ROM strings, which exist with DUK_USE_ROM_STRINGS only  *)
(* and carry a precomputed clen and a preset ASCII flag.                   *)
(***************************************************************************)
StringData ==
  { <<>>, <<\h41, \h42, \h43>>, <<\h41, \hC3, \hA9>>, <<\hF0, \h9F, \h98, \h80>>,
    <<\h41, \hF0, \h9F, \h98, \h80, \h42>>, <<\hED, \hB8, \h80, \hED, \hA0, \hBD>> }

SymbolData == { <<\h81>>, <<\hFF, \h41, \h42>> }

Configs ==
  {c \in [lazy_clen : BOOLEAN, clen : BOOLEAN, rom : BOOLEAN] :
     ~c.lazy_clen => c.clen}

NewHandle(d, sym, ro) ==
  [data |-> d, symbol |-> sym, readonly |-> ro, ascii |-> FALSE, clen |-> 0]

Precomputed(hs, c) ==
  LET clen == IF hs.symbol THEN 0 ELSE duk_unicode_wtf8_charlength(hs.data) IN
  [hs EXCEPT !.clen = IF c.clen THEN clen ELSE 0,
             !.ascii = ~hs.symbol /\ \A i \in 1..Len(hs.data) : hs.data[i] < \h80]

(* Needles of the searches.                                                *)
MatchData == { <<>>, <<\h42>>, <<\hED, \hB8, \h80>> }

(* Strings and needles of the calls of the string operations: further      *)
(* canonical strings with a repeated character, with an unpaired high      *)
(* surrogate in front of two adjacent supplementary codepoints (U+10FFFF   *)
(* and U+10000), and needles that begin or end inside a codepoint.         *)
SubstringData ==
  StringData \cup
  { <<\hE2, \h82, \hAC, \h42, \h42>>,
    <<\hED, \hA0, \hBD, \hF4, \h8F, \hBF, \hBF, \hF0, \h90, \h80, \h80>> }

NeedleData ==
  MatchData \cup
  { <<\hF0, \h9F, \h98, \h80>>, <<\hED, \hBF, \hBF, \hED, \hA0, \h80>> }

Handles(c, strings, symbols) ==
  LET new == {NewHandle(d, FALSE, FALSE) : d \in strings}
               \cup {NewHandle(d, TRUE, FALSE) : d \in symbols}
      rom == {NewHandle(d, FALSE, TRUE) : d \in strings}
               \cup {NewHandle(d, TRUE, TRUE) : d \in symbols}
  IN (IF c.lazy_clen THEN new ELSE {duk_hstring_init_charlen(x, c) : x \in new})
     \cup (IF c.rom THEN {Precomputed(x, c) : x \in rom} ELSE {})

NoHandle == NewHandle(<<>>, FALSE, FALSE)
NoConfig == [lazy_clen |-> FALSE, clen |-> TRUE, rom |-> FALSE]

(***************************************************************************)
(* State.  str is the input buffer of the call in progress; p, out,        *)
(* out_clen_sub and out_clen are the sanitizer's locals and output buffer; *)
(* symbol is the local of sanitize_detect; align and junk are the          *)
(* alignment of str and the content of the memory around it, keep the      *)
(* result of the keep check; cfg is the build configuration, h a string    *)
(* handle and m a second one (the needle of a search), op the last call    *)
(* made with its arguments args, ret the integer it returned (0 if none),  *)
(* res the bytes of the string it pushed (empty if none), wrote and mwrote *)
(* the fields of h and of m it has stored to, valstack the entries it left *)
(* on the value stack above the height at its entry, sub the bytes the     *)
(* last substring call handed to the string table with its copy_start and  *)
(* copy_end; nonbmp_count and alloc_size are the locals of to_cesu8, which *)
(* reads str through p and writes out; pc is the position in the call.     *)
(***************************************************************************)
VARIABLES str, p, out, out_clen_sub, out_clen, pc, symbol,
          align, junk, keep, cfg, h, m, op, args, ret, res, wrote, mwrote,
          valstack, sub, nonbmp_count, alloc_size

vars == <<str, p, out, out_clen_sub, out_clen, pc, symbol,
          align, junk, keep, cfg, h, m, op, args, ret, res, wrote, mwrote,
          valstack, sub, nonbmp_count, alloc_size>>

sanvars == <<p, out, out_clen_sub, out_clen, symbol>>
keepvars == <<align, junk, keep>>
hvars == <<cfg, h, m, op, args, ret, res, wrote, mwrote, valstack, sub>>
cesuvars == <<nonbmp_count, alloc_size>>

NoSub == [bytes |-> <<>>, copy_start |-> -1, copy_end |-> -1]

SanitizerIdle ==
  /\ p = 0
  /\ out = <<>>
  /\ out_clen_sub = 0
  /\ out_clen = 0
  /\ symbol = FALSE

KeepIdle ==
  /\ align = 0
  /\ junk = 0
  /\ keep = [ret |-> 0, blen_keep |-> 0, hi |-> 0]

HandleIdle ==
  /\ cfg = NoConfig
  /\ h = NoHandle
  /\ m = NoHandle
  /\ op = "none"
  /\ args = <<>>
  /\ ret = 0
  /\ res = <<>>
  /\ wrote = {}
  /\ mwrote = {}
  /\ valstack = <<>>
  /\ sub = NoSub

Cesu8Idle ==
  /\ nonbmp_count = 0
  /\ alloc_size = 0

(* One pass of the while (p != p_end) loop of sanitize_string.             *)
SanitizeLoop ==
  /\ pc = "loop"
  /\ p # Len(str)
  /\ LET it == SanitizeIter(str, p) IN
       /\ p' = it.p
       /\ out' = out \o it.bytes
       /\ out_clen_sub' = out_clen_sub + it.sub
  /\ UNCHANGED <<str, out_clen, pc, symbol, keepvars, hvars, cesuvars>>

(* Loop exit: out_blen = q - out_data, out_clen = out_blen - out_clen_sub. *)
(* The lengths of the model are far below 2^32; a negative value here      *)
(* would be the unsigned subtraction wrapping.                             *)
SanitizeReturn ==
  /\ pc = "loop"
  /\ p = Len(str)
  /\ out_clen' = Len(out) - out_clen_sub
  /\ pc' = "done"
  /\ UNCHANGED <<str, p, out, out_clen_sub, symbol, keepvars, hvars, cesuvars>>

(* duk_unicode_wtf8_sanitize_detect: a symbol is copied and the call       *)
(* returns; anything else enters sanitize_string.                          *)
SanitizeDetect ==
  /\ pc = "detect"
  /\ symbol' = DetectSymbol(str)
  /\ IF symbol'
     THEN /\ out' = duk__unicode_wtf8_sanitize_symbol_reference(str)
          /\ pc' = "done"
     ELSE /\ out' = out
          /\ pc' = "loop"
  /\ UNCHANGED <<str, p, out_clen_sub, out_clen, keepvars, hvars, cesuvars>>

(* A call of duk_unicode_wtf8_sanitize_string on any input.                *)
Init ==
  /\ str \in Inputs
  /\ pc = "loop"
  /\ SanitizerIdle /\ KeepIdle /\ HandleIdle /\ Cesu8Idle

Next == SanitizeLoop \/ SanitizeReturn

Spec == Init /\ [][Next]_vars

(* A call of duk_unicode_wtf8_sanitize_detect on any input.                *)
InitDetect ==
  /\ str \in Inputs
  /\ pc = "detect"
  /\ SanitizerIdle /\ KeepIdle /\ HandleIdle /\ Cesu8Idle

NextDetect == SanitizeDetect \/ SanitizeLoop \/ SanitizeReturn

SpecDetect == InitDetect /\ [][NextDetect]_vars

(* A call of duk_unicode_wtf8_sanitize_keepcheck on a buffer at any        *)
(* alignment.                                                              *)
Keepcheck ==
  /\ pc = "keepcheck"
  /\ keep' = duk_unicode_wtf8_sanitize_keepcheck(str, align, junk)
  /\ pc' = "done"
  /\ UNCHANGED <<str, align, junk, sanvars, hvars, cesuvars>>

InitKeep ==
  /\ str \in KeepInputs
  /\ align \in 0..3
  /\ junk \in {\h00, \hFF}
  /\ keep = [ret |-> 0, blen_keep |-> 0, hi |-> 0]
  /\ pc = "keepcheck"
  /\ SanitizerIdle /\ HandleIdle /\ Cesu8Idle

NextKeep == Keepcheck

SpecKeep == InitKeep /\ [][NextKeep]_vars

(* Calls on the string handles, in any order.  The callers pass valid      *)
(* WTF-8 strings, not symbols, and offsets inside the string to the        *)
(* operations that take character offsets.  Each action takes the result   *)
(* of its call from a one-element set, which evaluates the call once.      *)
Call(name, a, r) ==
  /\ op' = name
  /\ args' = a
  /\ ret' = r.ret
  /\ h' = r.h
  /\ wrote' = r.wrote
  /\ UNCHANGED <<str, pc, cfg, sanvars, keepvars, cesuvars>>

(* The last call took no second handle; it pushed no string; it left the   *)
(* value stack alone.                                                      *)
NoNeedle == m' = m /\ mwrote' = {}
NoString == res' = <<>> /\ sub' = NoSub
NoPush == valstack' = <<>>

GetCharlen ==
  /\ \E r \in {duk_hstring_get_charlen(h, cfg)} : Call("get_charlen", <<>>, r)
  /\ NoNeedle /\ NoString /\ NoPush

IsAscii ==
  /\ Call("is_ascii", <<>>, Result(IF duk_hstring_is_ascii(h) THEN 1 ELSE 0, h, {}))
  /\ NoNeedle /\ NoString /\ NoPush

CharLen(hs) == IF hs.symbol THEN 0 ELSE duk_unicode_wtf8_charlength(hs.data)

CharCodeAt ==
  /\ ~h.symbol
  /\ \E pos \in 0..(CharLen(h) - 1), surrogate_aware \in BOOLEAN :
       \E r \in {duk_unicode_wtf8_charcodeat_helper(h, cfg, pos, surrogate_aware)} :
         Call("char_code_at", <<pos, surrogate_aware>>, r)
  /\ NoNeedle /\ NoString /\ NoPush

Substring ==
  /\ ~h.symbol
  /\ \E start_offset \in 0..CharLen(h) : \E end_offset \in start_offset..CharLen(h) :
       \E t \in {duk_push_wtf8_substring_hstring(h, cfg, <<>>, start_offset, end_offset)} :
       /\ Call("substring", <<start_offset, end_offset>>, Result(0, t.h, t.wrote))
       /\ res' = t.str
       /\ sub' = [bytes |-> t.bytes, copy_start |-> t.copy_start, copy_end |-> t.copy_end]
       /\ valstack' = t.valstack
  /\ NoNeedle

SearchForwards ==
  /\ ~h.symbol /\ ~m.symbol
  /\ \E start_charoff \in 0..CharLen(h) :
       \E r \in {duk_unicode_wtf8_search_forwards(h, m, cfg, <<>>, start_charoff)} :
       /\ Call("search_forwards", <<start_charoff>>, r)
       /\ m' = r.m
       /\ mwrote' = r.mwrote
       /\ valstack' = r.valstack
  /\ NoString

SearchBackwards ==
  /\ ~h.symbol /\ ~m.symbol
  /\ \E start_charoff \in 0..CharLen(h) :
       \E r \in {duk_unicode_wtf8_search_backwards(h, m, cfg, <<>>, start_charoff)} :
       /\ Call("search_backwards", <<start_charoff>>, r)
       /\ m' = r.m
       /\ mwrote' = r.mwrote
       /\ valstack' = r.valstack
  /\ NoString

InitHandle ==
  /\ cfg \in Configs
  /\ h \in Handles(cfg, StringData, SymbolData)
  /\ m \in Handles(cfg, MatchData, {})
  /\ op = "none"
  /\ args = <<>>
  /\ ret = 0
  /\ res = <<>>
  /\ wrote = {}
  /\ mwrote = {}
  /\ str = <<>>
  /\ pc = "handle"
  /\ valstack = <<>>
  /\ sub = NoSub
  /\ SanitizerIdle /\ KeepIdle /\ Cesu8Idle

NextHandle ==
  \/ GetCharlen
  \/ IsAscii
  \/ CharCodeAt
  \/ Substring
  \/ SearchForwards
  \/ SearchBackwards

SpecHandle == InitHandle /\ [][NextHandle]_vars

(* Calls of the string operations on string handles, in the configurations *)
(* without ROM strings.                                                    *)
InitString ==
  /\ cfg \in {c \in Configs : ~c.rom}
  /\ h \in Handles(cfg, SubstringData, {})
  /\ m \in Handles(cfg, NeedleData, {})
  /\ op = "none"
  /\ args = <<>>
  /\ ret = 0
  /\ res = <<>>
  /\ wrote = {}
  /\ mwrote = {}
  /\ valstack = <<>>
  /\ sub = NoSub
  /\ str = <<>>
  /\ pc = "handle"
  /\ SanitizerIdle /\ KeepIdle /\ Cesu8Idle

NextString ==
  \/ CharCodeAt
  \/ Substring
  \/ SearchForwards
  \/ SearchBackwards

SpecString == InitString /\ [][NextString]_vars

(* A call of duk_unicode_wtf8_to_cesu8 on valid WTF-8.  out holds the      *)
(* bytes stored through q, so that q - buf is Len(out); the buffer pushed  *)
(* has alloc_size bytes, and a store at an offset >= alloc_size is outside *)
(* it.                                                                     *)
Cesu8Count ==
  /\ pc = "cesu8_count"
  /\ p # Len(str)
  /\ nonbmp_count' = nonbmp_count + Cesu8CountIter(str, p)
  /\ p' = p + 1
  /\ UNCHANGED <<str, out, out_clen_sub, out_clen, pc, symbol, alloc_size, keepvars, hvars>>

Cesu8Alloc ==
  /\ pc = "cesu8_count"
  /\ p = Len(str)
  /\ alloc_size' = Len(str) + 2 * nonbmp_count
  /\ valstack' = duk_push(valstack, "buffer")
  /\ p' = 0
  /\ out' = <<>>
  /\ pc' = "cesu8_copy"
  /\ UNCHANGED <<str, out_clen_sub, out_clen, symbol, nonbmp_count, keepvars,
                 cfg, h, m, op, args, ret, res, wrote, mwrote, sub>>

(* One pass of the second loop.  Stores past the end of the buffer are     *)
(* undefined: they land in the memory behind it and the loop goes on, or   *)
(* the call does not survive them (Cesu8Fault).                            *)
Cesu8Copy ==
  /\ pc = "cesu8_copy"
  /\ p # Len(str)
  /\ LET it == Cesu8CopyIter(str, p) IN
       /\ p' = it.p
       /\ out' = out \o it.bytes
  /\ UNCHANGED <<str, out_clen_sub, out_clen, pc, symbol, cesuvars, keepvars, hvars>>

Cesu8Fault ==
  /\ pc = "cesu8_copy"
  /\ p # Len(str)
  /\ Len(out) + Len(Cesu8CopyIter(str, p).bytes) > alloc_size
  /\ pc' = "fault"
  /\ UNCHANGED <<str, p, out, out_clen_sub, out_clen, symbol, cesuvars, keepvars, hvars>>

Cesu8Return ==
  /\ pc = "cesu8_copy"
  /\ p = Len(str)
  /\ pc' = "done"
  /\ UNCHANGED <<str, p, out, out_clen_sub, out_clen, symbol, cesuvars, keepvars, hvars>>

Cesu8Inputs == {x \in Inputs : duk_unicode_is_valid_wtf8(x)}

InitCesu8 ==
  /\ str \in Cesu8Inputs
  /\ pc = "cesu8_count"
  /\ SanitizerIdle /\ KeepIdle /\ HandleIdle /\ Cesu8Idle

NextCesu8 == Cesu8Count \/ Cesu8Alloc \/ Cesu8Copy \/ Cesu8Fault \/ Cesu8Return

SpecCesu8 == InitCesu8 /\ [][NextCesu8]_vars

(***************************************************************************)
(* Vocabulary of the properties: valid WTF-8 split into its encoded        *)
(* sequences, the value of a sequence, surrogate halves, and the           *)
(* invalidation events of the sanitizer's input.                           *)
(***************************************************************************)
SeqLen(t) == IF t <= \h7F THEN 1 ELSE IF t <= \hDF THEN 2 ELSE IF t <= \hEF THEN 3 ELSE 4

RECURSIVE Scalars(_)
Scalars(b) ==
  IF b = <<>> THEN <<>>
  ELSE LET n == SeqLen(b[1])
       IN <<SubSeq(b, 1, n)>> \o Scalars(SubSeq(b, n + 1, Len(b)))

ScalarValue(s) ==
  IF Len(s) = 1 THEN s[1]
  ELSE IF Len(s) = 2 THEN (s[1] % 32) * 64 + (s[2] % 64)
  ELSE IF Len(s) = 3 THEN (s[1] % 16) * 4096 + (s[2] % 64) * 64 + (s[3] % 64)
  ELSE (s[1] % 8) * 262144 + (s[2] % 64) * 4096 + (s[3] % 64) * 64 + (s[4] % 64)

IsHighSeq(s) == Len(s) = 3 /\ s[1] = \hED /\ s[2] >= \hA0 /\ s[2] <= \hAF
IsLowSeq(s) == Len(s) = 3 /\ s[1] = \hED /\ s[2] >= \hB0 /\ s[2] <= \hBF

Encode4(cp) ==
  << \hF0 + (cp \div 262144), \h80 + ((cp \div 4096) % 64),
     \h80 + ((cp \div 64) % 64), \h80 + (cp % 64) >>

RECURSIVE CoalesceSeqs(_)
CoalesceSeqs(ss) ==
  IF ss = <<>> THEN <<>>
  ELSE IF Len(ss) >= 2 /\ IsHighSeq(ss[1]) /\ IsLowSeq(ss[2]) THEN
    Encode4(\h10000 + (ScalarValue(ss[1]) % 1024) * 1024 + (ScalarValue(ss[2]) % 1024))
      \o CoalesceSeqs(Tail(Tail(ss)))
  ELSE ss[1] \o CoalesceSeqs(Tail(ss))

Coalesced(b) == CoalesceSeqs(Scalars(b))

HasAdjacentPair(b) ==
  LET ss == Scalars(b) IN
  \E i \in 1..(Len(ss) - 1) : IsHighSeq(ss[i]) /\ IsLowSeq(ss[i + 1])

RECURSIVE SumLen(_)
SumLen(ss) ==
  IF ss = <<>> THEN 0
  ELSE (IF ScalarValue(Head(ss)) < \h10000 THEN 1 ELSE 2) + SumLen(Tail(ss))

EsLength(b) == SumLen(Scalars(b))

CannotStart(t) == (t >= \h80 /\ t <= \hC1) \/ (t >= \hF5 /\ t <= \hFF)
NumCont(t) == IF t <= \hDF THEN 1 ELSE IF t <= \hEF THEN 2 ELSE 3
AllowedCont(lead, k, t) ==
  IF k = 1 THEN
    /\ t >= (IF lead = \hE0 THEN \hA0 ELSE IF lead = \hF0 THEN \h90 ELSE \h80)
    /\ t <= (IF lead = \hF4 THEN \h8F ELSE \hBF)
  ELSE t >= \h80 /\ t <= \hBF

(* Number of valid continuation bytes that follow the lead at offset q.    *)
ValidRun(b, q) ==
  LET lead == b[q + 1]
      ks == {k \in 0..NumCont(lead) :
               \A j \in 1..k : q + j < Len(b) /\ AllowedCont(lead, j, b[q + 1 + j])}
  IN CHOOSE k \in ks : \A k2 \in ks : k2 <= k

InvalidEvent(b, q) ==
  /\ q < Len(b)
  /\ b[q + 1] >= \h80
  /\ (CannotStart(b[q + 1]) \/ ValidRun(b, q) < NumCont(b[q + 1]))

EventWidth(b, q) == IF CannotStart(b[q + 1]) THEN 1 ELSE 1 + ValidRun(b, q)

FFFD == <<\hEF, \hBF, \hBD>>

(***************************************************************************)
(* Properties of the sanitizer.                                            *)
(***************************************************************************)

(* C1: whatever the input bytes, the bytes sanitize_string has written     *)
(* when it returns are accepted by duk_unicode_is_valid_wtf8.              *)
C1_OutputValid == pc = "done" => duk_unicode_is_valid_wtf8(out)

C1_Witness ==
  /\ pc = "done"
  /\ Len(str) >= 3
  /\ ~duk_unicode_is_valid_wtf8(str)
  /\ \E i \in 1..Len(str) : str[i] = \hF4

(* C2: sanitizing the sanitizer's output again gives the same bytes.       *)
C2_Idempotent == pc = "done" => duk_unicode_wtf8_sanitize_string(out) = out

C2_Witness ==
  /\ pc = "done"
  /\ out # str
  /\ \E i \in 1..Len(out) : out[i] = \hEF
  /\ \E i \in 1..Len(out) : out[i] >= \hF0

(* C3: on valid WTF-8 input the output is the input with every high        *)
(* surrogate sequence directly followed by a low surrogate sequence        *)
(* replaced by the 4-byte encoding of the combined codepoint, everything   *)
(* else copied; without such a pair the output is the input.               *)
C3_ValidInputCoalesced ==
  (pc = "done" /\ duk_unicode_is_valid_wtf8(str)) =>
     /\ out = Coalesced(str)
     /\ ~HasAdjacentPair(str) => out = str

C3_Witness ==
  /\ pc = "done"
  /\ duk_unicode_is_valid_wtf8(str)
  /\ HasAdjacentPair(str)
  /\ Len(str) = 9
  /\ Len(out) = 7
  /\ IsLowSeq(SubSeq(out, 5, 7))

(* C4: a loop pass that starts at an invalidation event writes exactly one *)
(* U+FFFD and consumes the lead with its valid continuation bytes only (a  *)
(* byte that cannot start a sequence alone), leaving p at the offending    *)
(* byte; the two documented inputs give the documented outputs.            *)
C4_OneReplacementPerEvent ==
  /\ [][ (pc = "loop" /\ InvalidEvent(str, p)) =>
          /\ out' = out \o FFFD
          /\ p' = p + EventWidth(str, p)
          /\ out_clen_sub' = out_clen_sub + 2 ]_vars
  /\ [](pc = "done" =>
          /\ str = <<\h41, \hC3, \h28>> => out = <<\h41, \hEF, \hBF, \hBD, \h28>>
          /\ str = <<\hC0, \hAF>> => out = FFFD \o FFFD)

C4_Witness ==
  /\ pc = "done"
  /\ str = <<\h41, \hC3, \h28>>
  /\ out = <<\h41, \hEF, \hBF, \hBD, \h28>>

(* C5: the character length the sanitizer computes is the ECMAScript       *)
(* character length of its output: duk_unicode_wtf8_charlength of it, one  *)
(* per sequence below U+10000 and two per supplementary one.               *)
C5_CharlenOfOutput ==
  pc = "done" =>
    /\ out_clen = duk_unicode_wtf8_charlength(out)
    /\ out_clen = EsLength(out)

(***************************************************************************)
(* Properties of symbol detection.                                         *)
(***************************************************************************)
Markers == {\h80, \h81, \h82, \hFF}
BeginsWithMarker(b) == Len(b) > 0 /\ b[1] \in Markers

(* C6: the output of sanitize_detect begins with a marker byte exactly     *)
(* when the input is non-empty and begins with one; then the output is the *)
(* input, byte for byte; every other input is sanitized as a string.       *)
C6_SymbolsNeverCollide ==
  pc = "done" =>
    /\ BeginsWithMarker(out) <=> BeginsWithMarker(str)
    /\ BeginsWithMarker(str) => (symbol /\ out = str)
    /\ ~BeginsWithMarker(str) => (~symbol /\ out = duk_unicode_wtf8_sanitize_string(str))

C6_Witness ==
  /\ pc = "done"
  /\ Len(str) >= 3
  /\ str[1] = \hFF
  /\ ~duk_unicode_is_valid_wtf8(SubSeq(str, 2, Len(str)))
  /\ out = str

(***************************************************************************)
(* Properties of the keep check.                                           *)
(***************************************************************************)
FirstNonAscii(b) ==
  LET idx == {i \in 0..(Len(b) - 1) : b[i + 1] >= \h80} \cup {Len(b)}
  IN CHOOSE i \in idx : \A k \in idx : i <= k

(* C7: at every alignment the keep check returns blen for a buffer that    *)
(* begins with a symbol marker and otherwise the offset of the first byte  *)
(* >= 0x80 (blen without one); the word scan agrees with the byte-by-byte  *)
(* scan and no byte at an offset >= blen is read.                          *)
C7_KeepcheckExact ==
  pc = "done" =>
    /\ keep.ret = IF BeginsWithMarker(str) THEN Len(str) ELSE FirstNonAscii(str)
    /\ keep.blen_keep = duk__unicode_wtf8_sanitize_asciicheck_reference(str)
    /\ keep.hi <= Len(str)

C7_Witness ==
  /\ pc = "done"
  /\ align = 3
  /\ Len(str) = MaxKeepLen
  /\ keep.ret = 8
  /\ keep.hi = 9

(***************************************************************************)
(* Properties of the lazy fields of a handle.                              *)
(***************************************************************************)

(* C8: over any sequence of calls on a handle, the ASCII flag once set     *)
(* stays set and the stored clen once nonzero keeps its value, so each of  *)
(* the two fields changes at most once.                                    *)
C8_LazyFieldsOneWay ==
  [][ /\ h.ascii => h'.ascii
      /\ h.clen # 0 => h'.clen = h.clen
      /\ m.ascii => m'.ascii
      /\ m.clen # 0 => m'.clen = m.clen ]_vars

C8_Witness ==
  /\ op = "search_forwards"
  /\ cfg.lazy_clen /\ cfg.clen
  /\ wrote = {} /\ mwrote = {}
  /\ h.clen = 3 /\ h.ascii
  /\ m.clen = 1 /\ m.ascii

(* C9: in every configuration, every call of get_charlen returns 0 for a   *)
(* SYMBOL handle and otherwise the character length of the handle's bytes, *)
(* one per sequence of up to three bytes and two per 4-byte sequence,      *)
(* whatever calls came before.                                             *)
C9_CharlenReturned ==
  op = "get_charlen" => ret = IF h.symbol THEN 0 ELSE EsLength(h.data)

C9_Witness ==
  /\ op = "get_charlen"
  /\ cfg.lazy_clen /\ cfg.clen
  /\ wrote = {}
  /\ ~h.readonly
  /\ ret = 4
  /\ Len(h.data) = 6

(* C10: with a lazy length, a call of get_charlen on a READONLY handle     *)
(* stores to no field of the handle and leaves clen and the flags as they  *)
(* were.                                                                   *)
C10_ReadonlyNotWritten ==
  [][ (h.readonly /\ cfg.lazy_clen /\ op' = "get_charlen") =>
        (h' = h /\ wrote' = {}) ]_vars

C10_Witness ==
  /\ op = "get_charlen"
  /\ h.readonly
  /\ cfg.lazy_clen /\ cfg.clen
  /\ h.data = <<>>
  /\ h.clen = 0

(***************************************************************************)
(* Vocabulary of the string operations: the UTF-16 code units of valid     *)
(* WTF-8 bytes, one per sequence below U+10000 and a surrogate pair per    *)
(* 4-byte sequence, and for each unit the codepoint of its sequence and    *)
(* the half of it the unit is (0 for a whole codepoint).                   *)
(***************************************************************************)
HighOf(cp) == \hD800 + ((cp - \h10000) \div 1024)
LowOf(cp) == \hDC00 + ((cp - \h10000) % 1024)

RECURSIVE UnitsOf(_)
UnitsOf(ss) ==
  IF ss = <<>> THEN <<>>
  ELSE LET cp == ScalarValue(Head(ss))
       IN (IF cp < \h10000 THEN <<cp>> ELSE <<HighOf(cp), LowOf(cp)>>) \o UnitsOf(Tail(ss))

Utf16Units(b) == UnitsOf(Scalars(b))

RECURSIVE OwnersOf(_)
OwnersOf(ss) ==
  IF ss = <<>> THEN <<>>
  ELSE LET cp == ScalarValue(Head(ss))
       IN (IF cp < \h10000 THEN <<[cp |-> cp, half |-> 0]>>
           ELSE <<[cp |-> cp, half |-> 1], [cp |-> cp, half |-> 2]>>) \o OwnersOf(Tail(ss))

UnitOwners(b) == OwnersOf(Scalars(b))

IsAsciiData(b) == \A i \in 1..Len(b) : b[i] < \h80

Smiley == <<\hF0, \h9F, \h98, \h80>>

(***************************************************************************)
(* Properties of the string operations.                                    *)
(***************************************************************************)

(* C11: char_code_at on a string handle at a position inside it returns    *)
(* the UTF-16 code unit at that position, except the codepoint itself at   *)
(* the first unit of a supplementary codepoint when surrogate-aware:       *)
(* data[pos] for an ASCII string, cp below U+10000, the high surrogate at  *)
(* the first unit when not surrogate-aware, the low surrogate at the       *)
(* second unit in both modes.                                              *)
C11_CharCodeAt ==
  op = "char_code_at" =>
    LET pos == args[1]
        surrogate_aware == args[2]
        o == UnitOwners(h.data)[pos + 1]
    IN /\ ret = IF surrogate_aware /\ o.half = 1 THEN o.cp
                ELSE Utf16Units(h.data)[pos + 1]
       /\ IsAsciiData(h.data) => ret = h.data[pos + 1]
       /\ o.half = 0 => ret = o.cp
       /\ (o.half = 1 /\ ~surrogate_aware) => ret = \hD800 + ((o.cp - \h10000) \div 1024)
       /\ o.half = 2 => ret = \hDC00 + ((o.cp - \h10000) % 1024)
       /\ h.data = Smiley =>
            ret = IF pos = 1 THEN \hDE00
                  ELSE IF surrogate_aware THEN \h1F600 ELSE \hD83D

C11_Witness ==
  /\ op = "char_code_at"
  /\ h.data = <<\h41, \hF0, \h9F, \h98, \h80, \h42>>
  /\ args = <<2, TRUE>>
  /\ ret = \hDE00

(* The canonical WTF-8 bytes of a sequence of UTF-16 code units: a high    *)
(* surrogate directly followed by a low one is one 4-byte sequence.        *)
IsHighUnit(u) == u >= \hD800 /\ u <= \hDBFF
IsLowUnit(u) == u >= \hDC00 /\ u <= \hDFFF

EncodeBmp(u) ==
  IF u < \h80 THEN <<u>>
  ELSE IF u < \h800 THEN << \hC0 + (u \div 64), \h80 + (u % 64) >>
  ELSE << \hE0 + (u \div 4096), \h80 + ((u \div 64) % 64), \h80 + (u % 64) >>

RECURSIVE EncodeUnits(_)
EncodeUnits(us) ==
  IF us = <<>> THEN <<>>
  ELSE IF Len(us) >= 2 /\ IsHighUnit(us[1]) /\ IsLowUnit(us[2]) THEN
    Encode4(\h10000 + (us[1] - \hD800) * 1024 + (us[2] - \hDC00))
      \o EncodeUnits(Tail(Tail(us)))
  ELSE EncodeBmp(us[1]) \o EncodeUnits(Tail(us))

(* Byte offset of the sequence that holds code unit k (from 0) of the      *)
(* sequences ss.                                                           *)
RECURSIVE SeqStartOf(_, _)
SeqStartOf(ss, k) ==
  LET w == IF Len(Head(ss)) = 4 THEN 2 ELSE 1
  IN IF k < w THEN 0 ELSE Len(Head(ss)) + SeqStartOf(Tail(ss), k - w)

(* C12: substring(h, start, end) of a canonical string with                *)
(* 0 <= start <= end <= clen is the string whose UTF-16 code units are the *)
(* units [start, end) of h: a codepoint split at start gives its low       *)
(* surrogate as a 3-byte prefix and the copy resumes 4 bytes after the     *)
(* start of its sequence, one split at end gives its high surrogate as a   *)
(* 3-byte suffix, start = end gives the empty string and [0, clen) gives h *)
(* itself.                                                                 *)
C12_SubstringUnits ==
  op = "substring" =>
    LET start == args[1]
        end == args[2]
        units == Utf16Units(h.data)
        owners == UnitOwners(h.data)
        want == SubSeq(units, start + 1, end)
    IN /\ res = EncodeUnits(want)
       /\ Utf16Units(res) = want
       /\ start = end => res = <<>>
       /\ (start = 0 /\ end = Len(units)) => res = h.data
       /\ (start < end /\ owners[start + 1].half = 2) =>
            /\ SubSeq(res, 1, 3) = EncodeBmp(\hDC00 + ((owners[start + 1].cp - \h10000) % 1024))
            /\ sub.copy_start = SeqStartOf(Scalars(h.data), start) + 4
       /\ (start < end /\ owners[end].half = 1) =>
            /\ SubSeq(res, Len(res) - 2, Len(res))
                 = EncodeBmp(\hD800 + ((owners[end].cp - \h10000) \div 1024))
            /\ sub.copy_end = SeqStartOf(Scalars(h.data), end - 1)
       /\ (h.data = Smiley /\ start = 0 /\ end = 1) => res = <<\hED, \hA0, \hBD>>
       /\ (h.data = Smiley /\ start = 1 /\ end = 2) => res = <<\hED, \hB8, \h80>>

C12_Witness ==
  /\ op = "substring"
  /\ h.data = <<\h41, \hF0, \h9F, \h98, \h80, \h42>>
  /\ args = <<1, 2>>
  /\ res = <<\hED, \hA0, \hBD>>

(* The substring of the haystack h at offset i is the needle m.            *)
MatchesAt(i) ==
  /\ i + EsLength(m.data) <= EsLength(h.data)
  /\ duk_push_wtf8_substring_hstring(h, cfg, <<>>, i, i + EsLength(m.data)).str = m.data

C16_TemporariesReleased ==
  /\ op = "substring" => valstack = <<"string">>
  /\ op \in {"search_forwards", "search_backwards"} => valstack = <<>>

C16_Witness ==
  /\ op = "search_forwards"
  /\ Len(h.data) = 11
  /\ m.data = <<\hED, \hB8, \h80>>
  /\ args = <<0>>
  /\ ret = -1
  /\ valstack = <<>>

(* C17: for a canonical string and 0 <= start < end <= clen, the bytes     *)
(* substring hands to the string table have copy_end >= copy_start and are *)
(* canonical already: valid WTF-8 without a high surrogate sequence        *)
(* directly followed by a low one, so that the sanitizer and the string    *)
(* table leave them as they are, and of character length end - start.      *)
C17_AssembledBytesCanonical ==
  (op = "substring" /\ args[1] < args[2] /\ ~HasAdjacentPair(h.data)) =>
    /\ sub.copy_start # -1 => sub.copy_end >= sub.copy_start
    /\ duk_unicode_is_valid_wtf8(sub.bytes)
    /\ ~HasAdjacentPair(sub.bytes)
    /\ duk_unicode_wtf8_sanitize_string(sub.bytes) = sub.bytes
    /\ res = sub.bytes
    /\ EsLength(sub.bytes) = args[2] - args[1]

C17_Witness ==
  /\ op = "substring"
  /\ Len(h.data) = 11
  /\ args = <<2, 4>>
  /\ sub = [bytes |-> <<\hED, \hBF, \hBF, \hED, \hA0, \h80>>, copy_start |-> 7, copy_end |-> 7]

(***************************************************************************)
(* Properties of the CESU-8 conversion.                                    *)
(***************************************************************************)
RECURSIVE Count4(_)
Count4(ss) ==
  IF ss = <<>> THEN 0 ELSE (IF Len(Head(ss)) = 4 THEN 1 ELSE 0) + Count4(Tail(ss))

RECURSIVE Cesu8Of(_)
Cesu8Of(ss) ==
  IF ss = <<>> THEN <<>>
  ELSE (IF Len(Head(ss)) = 4
        THEN EncodeBmp(HighOf(ScalarValue(Head(ss)))) \o EncodeBmp(LowOf(ScalarValue(Head(ss))))
        ELSE Head(ss)) \o Cesu8Of(Tail(ss))

(* C15: to_cesu8 of valid WTF-8 of length blen fills a buffer of exactly   *)
(* blen + 2 * (number of 4-byte sequences) bytes, the bytes outside 4-byte *)
(* sequences copied in order and each 4-byte sequence replaced by the two  *)
(* 3-byte sequences of its surrogate pair; the write position never passes *)
(* the end of the buffer and ends exactly there.                           *)
C15_Cesu8Exact ==
  /\ pc \in {"cesu8_copy", "done"} => Len(out) <= alloc_size
  /\ pc # "fault"
  /\ pc = "done" =>
       /\ alloc_size = Len(str) + 2 * Count4(Scalars(str))
       /\ Len(out) = alloc_size
       /\ out = Cesu8Of(Scalars(str))
       /\ str = Smiley => out = <<\hED, \hA0, \hBD, \hED, \hB8, \h80>>

====
